---- MODULE Spec2Model ----
(***************************************************************************)
(* Model of core.py: EnergyConsumptionLog, EnergyConsumptionLogger,        *)
(* EnergyConsumer and EnergyEstimator.                                     *)
(*                                                                         *)
(* Text is a sequence of one-character strings, so the regular expression, *)
(* the float parsing, the canonical key rendering and the string sort of   *)
(* get_logs are computed character by character.                           *)
(*                                                                         *)
(* Numbers: a timestamp is a whole number of seconds.  A delta and the     *)
(* consumption level are kept in hundredths (Scale); the inputs are        *)
(* multiples of 0.25, for which Python's float arithmetic is exact.  The   *)
(* timestamps of the inputs are whole hours, so the division /60/60 is     *)
(* exact, and an energy total is kept in hundredths of a watt-hour.        *)
(***************************************************************************)
EXTENDS Integers, Sequences, FiniteSets, TLC

\* hundredths: 100 stands for the level 1 (core.py:123) and the delta 1.0
Scale == 100

\* the largest number of events the store holds in the model
MaxLogs == 3

-----------------------------------------------------------------------------
(* Characters *)

Digits == {"0", "1", "2", "3", "4", "5", "6", "7", "8", "9"}

\* \s of the re module, restricted to the characters the inputs use
Spaces == {" ", "\t"}

DigitChar == <<"0", "1", "2", "3", "4", "5", "6", "7", "8", "9">>

DigitVal(c) == CHOOSE d \in 0..9 : DigitChar[d + 1] = c

\* the characters of the model in ascending code point order
CodePointOrder ==
    <<"\t", " ", "+", "-", ".", "0", "1", "2", "3", "4", "5", "6", "7", "8",
      "9", ":", "=", ">", "D", "E", "F", "O", "T", "X", "a", "d", "e", "f",
      "l", "n", "o", "r", "t", "u">>

\* ord(c), up to an order-preserving renumbering
Ord(c) == CHOOSE i \in 1..Len(CodePointOrder) : CodePointOrder[i] = c

Max(S) == CHOOSE x \in S : \A y \in S : y <= x

\* length of the longest run of characters of C that starts at s[i]
Run(s, i, C) == Max({j \in (i - 1)..Len(s) : \A k \in i..j : s[k] \in C}) - (i - 1)

\* the literal lit occurs in s at position i
HasAt(s, i, lit) ==
    /\ i + Len(lit) - 1 <= Len(s)
    /\ \A k \in 1..Len(lit) : s[i + k - 1] = lit[k]

\* Python's  lit in s
Contains(s, lit) == \E i \in 1..(Len(s) + 1) : HasAt(s, i, lit)

TurnOff == <<"T", "u", "r", "n", "O", "f", "f">>
Delta == <<"D", "e", "l", "t", "a">>

-----------------------------------------------------------------------------
(* float() and str() *)

RECURSIVE DigitsToNat(_)
DigitsToNat(s) ==
    IF s = <<>> THEN 0
    ELSE 10 * DigitsToNat(SubSeq(s, 1, Len(s) - 1)) + DigitVal(s[Len(s)])

RECURSIVE NatToDigits(_)
NatToDigits(n) ==
    IF n < 10 THEN <<DigitChar[n + 1]>>
    ELSE NatToDigits(n \div 10) \o <<DigitChar[(n % 10) + 1]>>

\* float(m_groups[-1]) of a text [+-]digits or [+-]digits.digits with at
\* most two fractional digits, in hundredths
FloatOfSigned(txt) ==
    LET sign == IF txt[1] = "-" THEN -1 ELSE 1
        n == Run(txt, 2, Digits)
        int == DigitsToNat(SubSeq(txt, 2, 1 + n))
        frac == SubSeq(txt, n + 3, Len(txt))
        hundredths == IF Len(frac) = 0 THEN 0
                      ELSE IF Len(frac) = 1 THEN 10 * DigitsToNat(frac)
                      ELSE DigitsToNat(frac)
    IN sign * (int * Scale + hundredths)

\* str() of a float given in hundredths: the shortest decimal, with at
\* least one fractional digit
FloatStr(h) ==
    LET a == IF h < 0 THEN -h ELSE h
        f == a % Scale
        fracTxt == IF f % 10 = 0 THEN <<DigitChar[(f \div 10) + 1]>>
                   ELSE <<DigitChar[(f \div 10) + 1], DigitChar[(f % 10) + 1]>>
    IN (IF h < 0 THEN <<"-">> ELSE <<>>) \o NatToDigits(a \div Scale)
         \o <<".">> \o fracTxt

-----------------------------------------------------------------------------
(* EnergyConsumptionLog *)

\* __init__: the delta is kept only when it is truthy and turned_on holds;
\* otherwise delta_consumption is the int 0
EnergyConsumptionLog(timestamp, delta_consumption, turned_on) ==
    [timestamp |-> timestamp,
     delta_consumption |-> IF delta_consumption # 0 /\ turned_on
                           THEN delta_consumption ELSE 0]

\* __str__: f"{self.timestamp.timestamp()}:{self.delta_consumption}"; the
\* timestamp is a float, the delta a float or the int 0
Str(log) ==
    FloatStr(log.timestamp * Scale) \o <<":">>
      \o (IF log.delta_consumption = 0 THEN <<"0">>
          ELSE FloatStr(log.delta_consumption))

NoLog == [timestamp |-> 0, delta_consumption |-> 0]

-----------------------------------------------------------------------------
(* EnergyConsumptionLogger *)

\* variant of TimestampDigits: a timestamp field of any width, [0-9]*
TimestampDigitsAnyWidth(allDigits) == allDigits

\* [0-9]{,10} is greedy: of a run of allDigits digits it takes at most 10
TimestampDigits(allDigits) == IF allDigits > 10 THEN 10 ELSE allDigits

NoMatch == [matched |-> FALSE, ts |-> <<>>, num |-> <<>>, end |-> 0]

\* ENERGY_LOG_REGEX.match(raw):
\*   (?:[>]\s)?([0-9]{,10})\s+(TurnOff|(Delta\s+([+-](?:\d+\.\d+|\d+))))
\* Every quantifier is greedy and none of them can give a character back
\* with success, so the match is found left to right.  ts is group 1, num
\* is the last group, end is the length of the matched prefix.
ENERGY_LOG_REGEX(raw) ==
    LET p0 == IF Len(raw) >= 2 /\ raw[1] = ">" /\ raw[2] \in Spaces THEN 2 ELSE 0
        allDigits == Run(raw, p0 + 1, Digits)
        nd == TimestampDigits(allDigits)
        p1 == p0 + nd
        ws1 == Run(raw, p1 + 1, Spaces)
        p2 == p1 + ws1
        ws2 == Run(raw, p2 + Len(Delta) + 1, Spaces)
        p3 == p2 + Len(Delta) + ws2
        int == Run(raw, p3 + 2, Digits)
        p4 == p3 + 1 + int
        frac == IF p4 + 1 <= Len(raw) /\ raw[p4 + 1] = "."
                THEN Run(raw, p4 + 2, Digits) ELSE 0
        p5 == IF frac > 0 THEN p4 + 1 + frac ELSE p4
    IN IF ws1 = 0 THEN NoMatch
       ELSE IF HasAt(raw, p2 + 1, TurnOff)
       THEN [matched |-> TRUE, ts |-> SubSeq(raw, p0 + 1, p1), num |-> <<>>,
             end |-> p2 + Len(TurnOff)]
       ELSE IF /\ HasAt(raw, p2 + 1, Delta)
               /\ ws2 > 0
               /\ p3 + 1 <= Len(raw)
               /\ raw[p3 + 1] \in {"+", "-"}
               /\ int > 0
       THEN [matched |-> TRUE, ts |-> SubSeq(raw, p0 + 1, p1),
             num |-> SubSeq(raw, p3 + 1, p5), end |-> p5]
       ELSE NoMatch

\* variant of _process_energy_log: the dict is keyed by the raw line instead
\* of str(energy_log)
_process_energy_log_raw_key(raw) ==
    LET m == ENERGY_LOG_REGEX(raw)
    IN IF ~m.matched THEN [outcome |-> "none", key |-> <<>>, log |-> NoLog]
       ELSE IF m.ts = <<>> THEN [outcome |-> "raised", key |-> <<>>, log |-> NoLog]
       ELSE LET timestamp == DigitsToNat(m.ts)
                energy_log ==
                    IF Contains(raw, TurnOff)
                    THEN EnergyConsumptionLog(timestamp, 0, FALSE)
                    ELSE EnergyConsumptionLog(timestamp, FloatOfSigned(m.num), TRUE)
            IN [outcome |-> "ok", key |-> raw, log |-> energy_log]

\* _process_energy_log(raw): outcome "none" is the return of None, "raised"
\* the ValueError of float(''), "ok" the return of {str(log): log}
_process_energy_log(raw) ==
    LET m == ENERGY_LOG_REGEX(raw)
    IN IF ~m.matched THEN [outcome |-> "none", key |-> <<>>, log |-> NoLog]
       ELSE IF m.ts = <<>> THEN [outcome |-> "raised", key |-> <<>>, log |-> NoLog]
       ELSE LET timestamp == DigitsToNat(m.ts)
                energy_log ==
                    IF Contains(raw, TurnOff)
                    THEN EnergyConsumptionLog(timestamp, 0, FALSE)
                    ELSE EnergyConsumptionLog(timestamp, FloatOfSigned(m.num), TRUE)
            IN IF ~Contains(raw, TurnOff) /\ ~Contains(raw, Delta)
               THEN [outcome |-> "none", key |-> <<>>, log |-> NoLog]
               ELSE [outcome |-> "ok", key |-> Str(energy_log), log |-> energy_log]

-----------------------------------------------------------------------------
(* Input lines *)

SP == <<" ">>
TAB == <<"\t">>
Marker == <<">", " ">>

T3600 == <<"3", "6", "0", "0">>
T7200 == <<"7", "2", "0", "0">>
T10800 == <<"1", "0", "8", "0", "0">>
\* 7200 written with leading zeros: 6 digits, and 11 digits
T007200 == <<"0", "0">> \o T7200
T11 == <<"0", "0", "0", "0", "0", "0", "0">> \o T7200

Plus05 == <<"+", "0", ".", "5">>
Minus025 == <<"-", "0", ".", "2", "5">>
Minus05123 == <<"-", "0", "5">>
Plus0 == <<"+", "0">>

TimestampTexts == {T3600, T7200, T10800}

\* well-formed lines: '<timestamp> TurnOff' and '<timestamp> Delta <number>'
PlainLines ==
    {ts \o SP \o TurnOff : ts \in TimestampTexts}
    \cup {ts \o SP \o Delta \o SP \o Plus05 : ts \in {T3600, T7200}}
    \cup {ts \o SP \o Delta \o SP \o Minus025 : ts \in {T7200, T10800}}
    \cup {T7200 \o SP \o Delta \o SP \o Minus05123,
          T7200 \o SP \o Delta \o SP \o Plus0}

\* the same events written with other whitespace runs, the marker, or
\* leading zeros
VariantLines ==
    {T7200 \o SP \o SP \o Delta \o TAB \o SP \o Minus025,
     T3600 \o TAB \o TurnOff,
     Marker \o T10800 \o SP \o Delta \o SP \o Minus025,
     T007200 \o SP \o TurnOff}

\* a well-formed prefix followed by more text
Suffixes == {<<"=", "=">>, <<"X">>, SP \o TurnOff, SP \o Delta \o SP \o Plus05}

SuffixBases == {T7200 \o SP \o Delta \o SP \o Plus05, T3600 \o SP \o TurnOff}

SuffixLines == {b \o x : b \in SuffixBases, x \in Suffixes}

\* a Delta token with no signed number after it
MissingNumberLines ==
    {T7200 \o SP \o Delta,
     T7200 \o SP \o Delta \o SP \o <<"0", ".", "5">>,
     T7200 \o SP \o Delta \o SP \o <<"+", ".", "5">>,
     T7200 \o SP \o Delta \o SP \o <<"T", "u", "r", "n", "e", "d", "O", "f", "f">>}

\* a token that is not exactly TurnOff or Delta
WrongTokenLines ==
    {T7200 \o SP \o <<"T", "u", "r", "n", "e", "d", "O", "f", "f">>,
     T7200 \o SP \o <<"t", "u", "r", "n", "o", "f", "f">>,
     T7200 \o SP \o <<"d", "e", "l", "t", "a">> \o SP \o Plus05}

\* a timestamp of more than 10 digits
LongTimestampLines ==
    {T11 \o SP \o TurnOff,
     T11 \o SP \o Delta \o SP \o Minus025,
     Marker \o T11 \o SP \o TurnOff}

\* the token placed before the timestamp; in the last line whitespace comes
\* first, so the regex matches with an empty timestamp group
TokenFirstLines ==
    {<<"t", "u", "r", "n", "o", "f", "f">> \o SP \o T7200,
     TurnOff \o SP \o T7200,
     SP \o TurnOff \o SP \o T7200,
     Delta \o SP \o Plus05 \o SP \o T7200,
     Marker \o TurnOff \o SP \o T7200}

\* neither a timestamp nor a token
NoTimestampNoTokenLines == {<<"E", "O", "F">>, <<>>}

\* no digit before the whitespace and the token: the timestamp group
\* matches the empty text
EmptyTimestampLines ==
    {SP \o TurnOff,
     SP \o Delta \o SP \o Plus05,
     Marker \o SP \o TurnOff}

\* the timestamp and the token not separated, or the marker without its
\* whitespace
OtherLines ==
    {T7200 \o TurnOff,
     <<">">> \o T7200 \o SP \o TurnOff}

RejectedShapeLines ==
    MissingNumberLines \cup WrongTokenLines \cup LongTimestampLines
      \cup TokenFirstLines \cup NoTimestampNoTokenLines

Lines ==
    PlainLines \cup VariantLines \cup SuffixLines \cup RejectedShapeLines
      \cup EmptyTimestampLines \cup OtherLines

\* the parse of every input line
Parsed == [raw \in Lines |-> _process_energy_log(raw)]

\* a < b in Python's comparison of str: by code point, a proper prefix first
StrLess(a, b) ==
    \E i \in 1..(Len(a) + 1) :
        /\ i <= Len(b)
        /\ \A k \in 1..(i - 1) : a[k] = b[k]
        /\ (i = Len(a) + 1 \/ Ord(a[i]) < Ord(b[i]))

\* sorted(keys)
RECURSIVE sorted(_)
sorted(keys) ==
    IF keys = {} THEN <<>>
    ELSE LET least == CHOOSE x \in keys : \A y \in keys \ {x} : StrLess(x, y)
         IN <<least>> \o sorted(keys \ {least})

\* get_logs: the stored logs in the order of their sorted keys
get_logs(energy_consumption_logs) ==
    LET keys == sorted(DOMAIN energy_consumption_logs)
    IN [i \in 1..Len(keys) |-> energy_consumption_logs[keys[i]]]

\* dict.update({key: log})
update(energy_consumption_logs, key, log) ==
    [k \in (DOMAIN energy_consumption_logs) \cup {key} |->
        IF k = key THEN log ELSE energy_consumption_logs[k]]

-----------------------------------------------------------------------------
(* EnergyConsumer *)

Min2(a, b) == IF a < b THEN a ELSE b
Max2(a, b) == IF a > b THEN a ELSE b

\* __init__ raises ValueError exactly when this holds
InitRaises(max_consumption) == max_consumption < 0

\* variant of set_consumption: a negative delta is added without the max(0, .)
set_consumption_no_floor(current_consumption, delta_change) ==
    IF delta_change < 0 THEN current_consumption + delta_change
    ELSE IF delta_change > 0 THEN Min2(Scale, current_consumption + delta_change)
    ELSE 0

\* variant of set_consumption: a zero delta leaves the level as it is
set_consumption_zero_keeps(current_consumption, delta_change) ==
    IF delta_change < 0 THEN Max2(0, current_consumption + delta_change)
    ELSE IF delta_change > 0 THEN Min2(Scale, current_consumption + delta_change)
    ELSE current_consumption

\* set_consumption: the new current_consumption
set_consumption(current_consumption, delta_change) ==
    IF delta_change < 0 THEN Max2(0, current_consumption + delta_change)
    ELSE IF delta_change > 0 THEN Min2(Scale, current_consumption + delta_change)
    ELSE 0

-----------------------------------------------------------------------------
(* EnergyEstimator *)

\* (next.timestamp - current.timestamp).total_seconds() / 60 / 60
hours_elapsed_between_logs(current, next) ==
    ((next.timestamp - current.timestamp) \div 60) \div 60

\* variant of estimate_loop: the interval is accumulated with the level
\* before set_consumption is applied
RECURSIVE estimate_loop_stale_level(_, _, _, _, _)
estimate_loop_stale_level(energy_logs, current_log, current_consumption, max_consumption, total_energy_estimate) ==
    LET next_log == current_log + 1
    IN IF current_log >= Len(energy_logs) \/ next_log > Len(energy_logs) - 1
       THEN [total |-> total_energy_estimate, level |-> current_consumption]
       ELSE LET level == set_consumption(current_consumption,
                             energy_logs[current_log + 1].delta_consumption)
                consumption_between_logs ==
                    hours_elapsed_between_logs(energy_logs[current_log + 1],
                                               energy_logs[next_log + 1])
                      * (current_consumption * max_consumption)
            IN estimate_loop_stale_level(energy_logs, next_log, level,
                   max_consumption, total_energy_estimate + consumption_between_logs)

\* the for loop of estimate_energy from the index current_log (counted from
\* 0 as in the source) on; the value is the total and the level at the end
RECURSIVE estimate_loop(_, _, _, _, _)
estimate_loop(energy_logs, current_log, current_consumption, max_consumption, total_energy_estimate) ==
    LET next_log == current_log + 1
    IN IF current_log >= Len(energy_logs) \/ next_log > Len(energy_logs) - 1
       THEN [total |-> total_energy_estimate, level |-> current_consumption]
       ELSE LET level == set_consumption(current_consumption,
                             energy_logs[current_log + 1].delta_consumption)
                consumption_between_logs ==
                    hours_elapsed_between_logs(energy_logs[current_log + 1],
                                               energy_logs[next_log + 1])
                      * (level * max_consumption)
            IN estimate_loop(energy_logs, next_log, level, max_consumption,
                             total_energy_estimate + consumption_between_logs)

\* variant of estimate_energy: set_consumption is called before the break,
\* so the final log is applied too
estimate_energy_applies_final(energy_consumption_logs, current_consumption, max_consumption) ==
    LET energy_logs == get_logs(energy_consumption_logs)
        r == estimate_loop(energy_logs, 0, current_consumption, max_consumption, 0)
    IN [total |-> r.total,
        level |-> IF Len(energy_logs) = 0 THEN r.level
                  ELSE set_consumption(r.level,
                           energy_logs[Len(energy_logs)].delta_consumption)]

\* estimate_energy: the returned total and the level it leaves
estimate_energy(energy_consumption_logs, current_consumption, max_consumption) ==
    estimate_loop(get_logs(energy_consumption_logs), 0, current_consumption,
                  max_consumption, 0)

-----------------------------------------------------------------------------
(* The program: one consumer with its logger, driven through its methods *)

VARIABLES
    constructed,                \* an EnergyConsumer exists
    max_consumption,            \* EnergyConsumer.max_consumption
    current_consumption,        \* EnergyConsumer.current_consumption, in hundredths
    _energy_consumption_logs,   \* the logger's dict: canonical key -> log
    last                        \* the last call: its input and what it gave back

vars == <<constructed, max_consumption, current_consumption,
          _energy_consumption_logs, last>>

\* the arguments the calls are made with
MaxConsumptions == {-1, 0, 5}
DeltaChanges == {-125, 0, 50}

NoLine == <<>>

Call(op, line, arg, outcome, log, dup, level0, ret) ==
    [op |-> op, line |-> line, arg |-> arg, outcome |-> outcome, log |-> log,
     dup |-> dup, level0 |-> level0, ret |-> ret]

Init ==
    /\ constructed = FALSE
    /\ max_consumption = 0
    /\ current_consumption = 0
    /\ _energy_consumption_logs = <<>>
    /\ last = Call("none", NoLine, 0, "ok", NoLog, FALSE, 0, 0)

\* EnergyConsumer(kind, max_consumption)
Construct(m) ==
    /\ ~constructed
    /\ IF InitRaises(m)
       THEN /\ last' = Call("__init__", NoLine, m, "raised", NoLog, FALSE, 0, 0)
            /\ UNCHANGED <<constructed, max_consumption, current_consumption,
                           _energy_consumption_logs>>
       ELSE /\ constructed' = TRUE
            /\ max_consumption' = m
            /\ current_consumption' = Scale
            /\ _energy_consumption_logs' = <<>>
            /\ last' = Call("__init__", NoLine, m, "ok", NoLog, FALSE, 0, 0)

\* energy_consumption_logger.add_log(raw_energy_log)
AddLog(raw_energy_log) ==
    LET processed_energy_log == Parsed[raw_energy_log]
        stored == {_energy_consumption_logs[k] : k \in DOMAIN _energy_consumption_logs}
        dup == processed_energy_log.outcome = "ok" /\ processed_energy_log.log \in stored
    IN /\ constructed
       /\ \/ processed_energy_log.outcome # "ok"
          \/ processed_energy_log.key \in DOMAIN _energy_consumption_logs
          \/ Cardinality(DOMAIN _energy_consumption_logs) < MaxLogs
       /\ _energy_consumption_logs' =
             IF processed_energy_log.outcome = "ok"
             THEN update(_energy_consumption_logs, processed_energy_log.key,
                         processed_energy_log.log)
             ELSE _energy_consumption_logs
       /\ last' = Call("add_log", raw_energy_log, 0, processed_energy_log.outcome,
                       processed_energy_log.log, dup, 0, 0)
       /\ UNCHANGED <<constructed, max_consumption, current_consumption>>

\* energy_consumer.set_consumption(delta_change)
SetConsumption(delta_change) ==
    /\ constructed
    /\ current_consumption' = set_consumption(current_consumption, delta_change)
    /\ last' = Call("set_consumption", NoLine, delta_change, "ok", NoLog, FALSE,
                    current_consumption, 0)
    /\ UNCHANGED <<constructed, max_consumption, _energy_consumption_logs>>

\* EnergyEstimator().estimate_energy(energy_consumer)
EstimateEnergy ==
    LET r == estimate_energy(_energy_consumption_logs, current_consumption,
                             max_consumption)
    IN /\ constructed
       /\ current_consumption' = r.level
       /\ last' = Call("estimate_energy", NoLine, 0, "ok", NoLog, FALSE,
                       current_consumption, r.total)
       /\ UNCHANGED <<constructed, max_consumption, _energy_consumption_logs>>

Next ==
    \/ \E m \in MaxConsumptions : Construct(m)
    \/ \E raw_energy_log \in Lines : AddLog(raw_energy_log)
    \/ \E delta_change \in DeltaChanges : SetConsumption(delta_change)
    \/ EstimateEnergy

Spec == Init /\ [][Next]_vars

TypeOK ==
    /\ constructed \in BOOLEAN
    /\ Cardinality(DOMAIN _energy_consumption_logs) <= MaxLogs

-----------------------------------------------------------------------------
(* Properties *)

energy_logs == get_logs(_energy_consumption_logs)

NumLogs == Len(energy_logs)

\* the level after set_consumption has been applied for the first k logs of
\* logs, in order, starting from level0
RECURSIVE LevelAfter(_, _, _)
LevelAfter(logs, k, level0) ==
    IF k = 0 THEN level0
    ELSE set_consumption(LevelAfter(logs, k - 1, level0), logs[k].delta_consumption)

\* the sum over the adjacent pairs (logs[i], logs[i + 1]), i <= k, of
\* hours * level * max_consumption
RECURSIVE PairSum(_, _, _, _)
PairSum(logs, k, level0, max) ==
    IF k = 0 THEN 0
    ELSE PairSum(logs, k - 1, level0, max)
           + hours_elapsed_between_logs(logs[k], logs[k + 1])
               * LevelAfter(logs, k, level0) * max

\* C1: estimate_energy returns the sum over the adjacent pairs of get_logs of
\* elapsed hours * level * max_consumption, the level being the one left by
\* set_consumption(e_i.delta_consumption) on top of the previous pair's level
C1_EstimateIsPairSum ==
    last.op = "estimate_energy" =>
        last.ret = PairSum(energy_logs, Max2(0, NumLogs - 1), last.level0,
                           max_consumption)

\* an estimate over three logs whose two intervals ran at different levels
\* and gave a non-zero total
C1_Witness ==
    /\ last.op = "estimate_energy"
    /\ NumLogs = 3
    /\ last.ret # 0
    /\ LevelAfter(energy_logs, 1, last.level0) # LevelAfter(energy_logs, 2, last.level0)
    /\ LevelAfter(energy_logs, 1, last.level0) # last.level0

\* C2: in every state of an EnergyConsumer, 0 <= current_consumption <= 1
C2_LevelInBounds ==
    constructed => (0 <= current_consumption /\ current_consumption <= Scale)

\* a negative delta larger than the level was applied and the level is 0
C2_Witness ==
    /\ last.op = "set_consumption"
    /\ last.arg < 0
    /\ last.level0 > 0
    /\ last.level0 + last.arg < 0
    /\ current_consumption = 0

\* C3: set_consumption(0) sets current_consumption to 0 whatever the level
\* was, and so does the zero delta of an off-event applied by estimate_energy
C3_ZeroDeltaForcesOff ==
    /\ (last.op = "set_consumption" /\ last.arg = 0) => current_consumption = 0
    /\ (/\ last.op = "estimate_energy"
        /\ NumLogs >= 2
        /\ energy_logs[NumLogs - 1].delta_consumption = 0) => current_consumption = 0

\* set_consumption(0) was called at a non-zero level
C3_Witness ==
    /\ last.op = "set_consumption"
    /\ last.arg = 0
    /\ last.level0 > 0
    /\ current_consumption = 0

\* C4: add_log never raises an error to the caller
C4_AddLogNeverRaises ==
    last.op = "add_log" => last.outcome # "raised"

\* C5: get_logs returns the logs in chronological order: each timestamp is at
\* most the timestamp of the log that follows it
C5_GetLogsChronological ==
    \A i \in 1..(NumLogs - 1) : energy_logs[i].timestamp <= energy_logs[i + 1].timestamp

\* C6: every stored log sits under its own canonical key, and add_log of a
\* line that gives a timestamp and delta already stored leaves the store as
\* it was
C6_AddLogIdempotent ==
    [][/\ \A k \in DOMAIN _energy_consumption_logs' :
             Str(_energy_consumption_logs'[k]) = k
       /\ (last'.op = "add_log" /\ last'.outcome = "ok"
            /\ \E k \in DOMAIN _energy_consumption_logs :
                  _energy_consumption_logs[k] = last'.log)
           => _energy_consumption_logs' = _energy_consumption_logs]_vars

\* a line was added whose event was already stored, written differently
\* from the canonical key's own line
C6_Witness ==
    /\ last.op = "add_log"
    /\ last.outcome = "ok"
    /\ last.dup
    /\ last.line \in VariantLines
    /\ NumLogs >= 2

\* C7: the event stored for an accepted line is the event of its matched
\* prefix alone
C7_PrefixDeterminesEvent ==
    (last.op = "add_log" /\ last.outcome = "ok") =>
        last.log = _process_energy_log(
                       SubSeq(last.line, 1, ENERGY_LOG_REGEX(last.line).end)).log

\* C8: add_log stores no event and leaves the store unchanged for a line
\* with a Delta token and no signed number, a token other than TurnOff and
\* Delta, a timestamp of more than 10 digits, a token before the timestamp,
\* or neither timestamp nor token
C8_RejectedShapes ==
    [][(last'.op = "add_log" /\ last'.line \in RejectedShapeLines)
         => (/\ last'.outcome # "ok"
             /\ _energy_consumption_logs' = _energy_consumption_logs)]_vars

\* a line with an 11-digit timestamp was added to a non-empty store and
\* dropped
C8_Witness ==
    /\ last.op = "add_log"
    /\ last.line \in LongTimestampLines
    /\ last.outcome = "none"
    /\ NumLogs >= 1

\* C9: construction succeeds only for a positive max_consumption
C9_ConstructedOnlyPositive ==
    /\ constructed => max_consumption > 0
    /\ (last.op = "__init__" /\ last.arg <= 0) => last.outcome = "raised"

\* C10: estimate_energy never applies the final log: with at most one log it
\* returns 0 and keeps the level, with n >= 2 logs it leaves the level of the
\* first n - 1 deltas applied to the level at entry
C10_FinalLogNotApplied ==
    last.op = "estimate_energy" =>
        /\ NumLogs <= 1 => (last.ret = 0 /\ current_consumption = last.level0)
        /\ NumLogs >= 2 =>
              current_consumption = LevelAfter(energy_logs, NumLogs - 1, last.level0)

\* an estimate over at least two logs where applying the final log would
\* have left another level
C10_Witness ==
    /\ last.op = "estimate_energy"
    /\ NumLogs >= 2
    /\ LevelAfter(energy_logs, NumLogs, last.level0)
         # LevelAfter(energy_logs, NumLogs - 1, last.level0)

====
